---- MODULE Spec2Model ----
(***************************************************************************)
(* Model of parse_schema.py: loading a GraphQL introspection document,     *)
(* unwrapping type references, deriving the Edge -> node map, and the      *)
(* recursive build of the nested field graph (build_nested_fields driven   *)
(* by extract_nested, or called directly with a caller-supplied visiting   *)
(* set).  The recursion is modelled with an explicit call stack.           *)
(*                                                                         *)
(* Python values are modelled as follows.  A dict with string keys is a    *)
(* function whose domain is the set of keys present (a record); a key      *)
(* holding None/null is modelled as an absent key, except for the document *)
(* levels where null is observable (JsonNull).  A list is a sequence.  A   *)
(* type name is a sequence of one-character strings, so that startswith    *)
(* and endswith are computed on the characters.  An insertion-ordered dict *)
(* whose order is observable is a record [keys, vals].                     *)
(***************************************************************************)
EXTENDS Integers, Sequences, FiniteSets, TLC

VARIABLES doc, max_depth, arg, pc, err, type_map, edge_map, ri, seen, stack, result

vars == <<doc, max_depth, arg, pc, err, type_map, edge_map, ri, seen, stack, result>>

(***************************************************************************)
(* Bounds of the model.                                                    *)
(***************************************************************************)
MaxTotalFields == 3
MaxDepthArg == 3

(***************************************************************************)
(* Python helpers.                                                         *)
(***************************************************************************)
\* max_depth = None (no depth limit)
None == -1

JsonNull == [null |-> TRUE]

EmptyDict == [keys |-> <<>>, vals |-> <<>>]

DictHas(d, k) == k \in DOMAIN d.vals

DictSet(d, k, v) ==
  [keys |-> IF k \in DOMAIN d.vals THEN d.keys ELSE Append(d.keys, k),
   vals |-> (k :> v) @@ d.vals]

\* str.startswith / str.endswith on character sequences
startswith(s, p) == Len(s) >= Len(p) /\ SubSeq(s, 1, Len(p)) = p

endswith(s, p) == Len(s) >= Len(p) /\ SubSeq(s, Len(s) - Len(p) + 1, Len(s)) = p

\* truth value of d.get(k) for a list-valued key: present and non-empty
Truthy(d, k) == k \in DOMAIN d /\ d[k] # <<>>

sUnder == <<"_", "_">>
sConnection == <<"C", "o", "n", "n", "e", "c", "t", "i", "o", "n">>
sEdge == <<"E", "d", "g", "e">>
sPayload == <<"P", "a", "y", "l", "o", "a", "d">>

(***************************************************************************)
(* load_schema                                                             *)
(***************************************************************************)
doc_data(d) == IF "data" \in DOMAIN d THEN d["data"] ELSE <<>>

doc_schema(d) ==
  IF "__schema" \in DOMAIN doc_data(d) THEN doc_data(d)["__schema"] ELSE <<>>

doc_types(d) ==
  IF "types" \in DOMAIN doc_schema(d) THEN doc_schema(d)["types"] ELSE <<>>

\* the exception load_schema raises on d, "none" when it returns
load_schema_error(d) ==
  IF doc_data(d) = JsonNull THEN "AttributeError"
  ELSE IF doc_schema(d) = JsonNull THEN "AttributeError"
  ELSE "none"

RECURSIVE load_types(_, _, _)
load_types(types, i, acc) ==
  IF i > Len(types) THEN acc
  ELSE load_types(types, i + 1,
                  IF "name" \in DOMAIN types[i]
                  THEN DictSet(acc, types[i].name, types[i])
                  ELSE acc)

load_schema(d) == load_types(doc_types(d), 1, EmptyDict)

(***************************************************************************)
(* get_base_type                                                           *)
(***************************************************************************)
RECURSIVE get_base_type(_)
get_base_type(t) ==
  IF /\ "kind" \in DOMAIN t
     /\ t.kind \in {"NON_NULL", "LIST"}
     /\ "ofType" \in DOMAIN t
  THEN get_base_type(t.ofType)
  ELSE IF "name" \in DOMAIN t THEN t.name ELSE <<>>

field_type(f) == IF "type" \in DOMAIN f THEN f.type ELSE <<>>

field_name(f) == IF "name" \in DOMAIN f THEN f.name ELSE ""

(***************************************************************************)
(* is_domain_type and the root filter shared by extract_fields and         *)
(* extract_nested                                                          *)
(***************************************************************************)
is_domain_type(name) ==
  IF startswith(name, sUnder) THEN FALSE
  ELSE IF endswith(name, sConnection) \/ endswith(name, sEdge) \/ endswith(name, sPayload)
  THEN FALSE
  ELSE TRUE

kind_is_root(t) == "kind" \in DOMAIN t /\ t.kind \in {"OBJECT", "INTERFACE"}

(***************************************************************************)
(* extract_fields                                                          *)
(***************************************************************************)
RECURSIVE flat_entries(_, _, _)
flat_entries(fields, i, acc) ==
  IF i > Len(fields) THEN acc
  ELSE flat_entries(fields, i + 1,
                    Append(acc, [field |-> field_name(fields[i]),
                                 type |-> get_base_type(field_type(fields[i]))]))

RECURSIVE extract_fields_loop(_, _, _)
extract_fields_loop(tm, i, acc) ==
  IF i > Len(tm.keys) THEN acc
  ELSE LET name == tm.keys[i]
           t == tm.vals[name]
       IN extract_fields_loop(tm, i + 1,
            IF ~is_domain_type(name) THEN acc
            ELSE IF ~kind_is_root(t) THEN acc
            ELSE IF ~Truthy(t, "fields") THEN acc
            ELSE DictSet(acc, name, flat_entries(t.fields, 1, <<>>)))

extract_fields(tm) == extract_fields_loop(tm, 1, EmptyDict)

(***************************************************************************)
(* build_edge_node_map                                                     *)
(***************************************************************************)
\* index of the first field named "node", 0 when there is none
RECURSIVE node_index(_, _)
node_index(fields, i) ==
  IF i > Len(fields) THEN 0
  ELSE IF field_name(fields[i]) = "node" THEN i
  ELSE node_index(fields, i + 1)

is_edge_entry(tm, name) ==
  /\ endswith(name, sEdge)
  /\ Truthy(tm.vals[name], "fields")
  /\ node_index(tm.vals[name].fields, 1) # 0

build_edge_node_map(tm) ==
  [name \in {n \in DOMAIN tm.vals : is_edge_entry(tm, n)} |->
     LET fields == tm.vals[name].fields
     IN get_base_type(field_type(fields[node_index(fields, 1)]))]

(***************************************************************************)
(* Input documents.  Type references and descriptors as the introspection  *)
(* JSON gives them.                                                        *)
(***************************************************************************)
Named(kind, name) == [kind |-> kind, name |-> name]

NonNull(t) == [kind |-> "NON_NULL", ofType |-> t]

ListOf(t) == [kind |-> "LIST", ofType |-> t]

Field(name, type) == [name |-> name, type |-> type]

TypeDesc(name, kind, fields) == [name |-> name, kind |-> kind, fields |-> fields]

nA == <<"A">>
nB == <<"B">>
nC == <<"C">>
nD == <<"D">>
nID == <<"I", "D">>
nGhost == <<"G", "h", "o", "s", "t">>
nItem == <<"I", "t", "e", "m">>
nXEdge == <<"X">> \o sEdge
nYEdge == <<"Y">> \o sEdge
nItemEdge == nItem \o sEdge
nItemConnection == nItem \o sConnection
nDoPayload == <<"D", "o">> \o sPayload
nMetaType == sUnder \o <<"T", "y", "p", "e">>

\* Bounded family: the types A, B and XEdge, with at most MaxTotalFields
\* fields in all, each drawn from FieldPool.
FieldPool ==
  { Field("a", Named("OBJECT", nA)),
    Field("b", NonNull(Named("INTERFACE", nB))),
    Field("items", ListOf(NonNull(Named("OBJECT", nXEdge)))),
    Field("node", Named("INTERFACE", nB)),
    Field("g", Named("OBJECT", nGhost)) }

FieldLists == UNION { [1..k -> FieldPool] : k \in 0..MaxTotalFields }

GenericTypeLists ==
  UNION { { << TypeDesc(nA, "OBJECT", SubSeq(fl, 1, c[1])),
               TypeDesc(nB, "INTERFACE", SubSeq(fl, c[1] + 1, c[2])),
               TypeDesc(nXEdge, "OBJECT", SubSeq(fl, c[2] + 1, Len(fl))) >>
            : c \in { d \in (0..Len(fl)) \X (0..Len(fl)) : d[1] <= d[2] } }
          : fl \in FieldLists }

\* The schemas of the specification's examples, and the shapes the bounded
\* family leaves out.
CyclicTypes ==
  << TypeDesc(nA, "OBJECT", << Field("b", Named("OBJECT", nB)) >>),
     TypeDesc(nB, "OBJECT", << Field("a", Named("OBJECT", nA)) >>) >>

DiamondTypes ==
  << TypeDesc(nA, "OBJECT", << Field("b", Named("OBJECT", nB)),
                                Field("c", Named("OBJECT", nC)) >>),
     TypeDesc(nB, "OBJECT", << Field("d", Named("OBJECT", nD)) >>),
     TypeDesc(nC, "OBJECT", << Field("d", NonNull(Named("OBJECT", nD))) >>),
     TypeDesc(nD, "OBJECT", << Field("id", Named("SCALAR", nID)) >>) >>

EdgeTypes ==
  << TypeDesc(nA, "OBJECT",
              << Field("items", ListOf(NonNull(Named("OBJECT", nItemEdge)))) >>),
     TypeDesc(nItemEdge, "OBJECT",
              << Field("cursor", Named("SCALAR", nID)),
                 Field("node", Named("OBJECT", nItem)) >>),
     TypeDesc(nItem, "OBJECT", << Field("id", NonNull(Named("SCALAR", nID))) >>),
     [name |-> nID, kind |-> "SCALAR"] >>

PaginationTypes ==
  << TypeDesc(nA, "OBJECT",
              << Field("items", Named("OBJECT", nItemConnection)),
                 Field("do", Named("OBJECT", nDoPayload)) >>),
     TypeDesc(nItemConnection, "OBJECT",
              << Field("edges", ListOf(Named("OBJECT", nItemEdge))) >>),
     TypeDesc(nItemEdge, "OBJECT", << Field("node", Named("OBJECT", nItem)) >>),
     TypeDesc(nItem, "OBJECT", << Field("id", Named("SCALAR", nID)) >>),
     TypeDesc(nDoPayload, "OBJECT", << Field("item", Named("OBJECT", nItem)) >>),
     TypeDesc(nMetaType, "OBJECT", << Field("a", Named("OBJECT", nA)) >>) >>

ChainTypes ==
  << TypeDesc(nA, "OBJECT", << Field("b", Named("OBJECT", nB)) >>),
     TypeDesc(nB, "OBJECT", << Field("g", Named("OBJECT", nGhost)),
                                Field("c", Named("OBJECT", nC)) >>),
     TypeDesc(nC, "OBJECT", << Field("d", Named("OBJECT", nD)) >>),
     TypeDesc(nD, "OBJECT", << Field("id", Named("SCALAR", nID)) >>) >>

\* a type without a name, a name given twice, fields empty, absent, and a
\* kind that is no root
OddTypes ==
  << [kind |-> "OBJECT", fields |-> << Field("a", Named("OBJECT", nA)) >>],
     TypeDesc(nA, "OBJECT", <<>>),
     [name |-> nB, kind |-> "OBJECT"],
     TypeDesc(nC, "UNION", << Field("b", Named("OBJECT", nB)) >>),
     TypeDesc(nD, "INTERFACE", << Field("c", Named("UNION", nC)),
                                   Field("a", Named("OBJECT", nA)) >>),
     TypeDesc(nA, "OBJECT", << Field("d", Named("INTERFACE", nD)) >>) >>

\* a self reference, a wrapper without ofType, a field without type or name
MalformedRefTypes ==
  << TypeDesc(nA, "OBJECT",
              << Field("self", ListOf(Named("OBJECT", nA))),
                 Field("bad", [kind |-> "NON_NULL"]),
                 [name |-> "untyped"],
                 [type |-> Named("OBJECT", nB)] >>),
     TypeDesc(nB, "OBJECT", << Field("a", NonNull(ListOf(Named("OBJECT", nA)))) >>) >>

\* Edge types whose node is an Edge type, and an Edge type without node
EdgeToEdgeTypes ==
  << TypeDesc(nA, "OBJECT", << Field("x", Named("OBJECT", nXEdge)),
                                Field("y", Named("OBJECT", nYEdge)),
                                Field("i", Named("OBJECT", nItemEdge)) >>),
     TypeDesc(nXEdge, "OBJECT", << Field("node", Named("OBJECT", nYEdge)) >>),
     TypeDesc(nYEdge, "OBJECT", << Field("node", Named("OBJECT", nA)) >>),
     TypeDesc(nItemEdge, "OBJECT", << Field("cursor", Named("SCALAR", nID)) >>) >>

ExampleTypeLists ==
  { CyclicTypes, DiamondTypes, EdgeTypes, PaginationTypes, ChainTypes,
    OddTypes, MalformedRefTypes, EdgeToEdgeTypes }

DocOf(types) == ("data" :> ("__schema" :> ("types" :> types)))

\* documents without the type-list location, or with null on the way to it
NoDataDoc == ("errors" :> <<>>)
NoSchemaDoc == ("data" :> ("errors" :> <<>>))
NoTypesDoc == ("data" :> ("__schema" :> ("queryType" :> nA)))
NullDataDoc == ("data" :> JsonNull)
NullSchemaDoc == ("data" :> ("__schema" :> JsonNull))

MissingDocs == { NoDataDoc, NoSchemaDoc, NoTypesDoc }

NullDocs == { NullDataDoc, NullSchemaDoc }

Docs ==
  { DocOf(tl) : tl \in GenericTypeLists \cup ExampleTypeLists } \cup MissingDocs \cup NullDocs

DepthArgs == (0..MaxDepthArg) \cup {None}

\* main() calls extract_nested; build_nested_fields is also callable on its
\* own, with a visiting set of the caller's choice.
DirectArgs ==
  [driver : {"direct"}, type_name : {nA, nB, nGhost}, seen : SUBSET {nA, nB}]

(***************************************************************************)
(* The state machine.                                                      *)
(*   pc       "load", "extract", "direct", "roots", "enter", "loop",       *)
(*            "done", "raised"                                             *)
(*   stack    the active calls of build_nested_fields, outermost first;    *)
(*            a frame holds the call's type_name and depth, the field list *)
(*            it iterates (src), the index of the field it is at (i), its  *)
(*            local list fields, and seen0, the visiting set as it was at  *)
(*            call entry (history only, never read by the program)         *)
(*   seen     the one set object all calls of a traversal share            *)
(*   ri       extract_nested's position in type_map.items()                *)
(***************************************************************************)
Init ==
  /\ doc \in Docs
  /\ max_depth \in DepthArgs
  /\ arg \in [driver : {"extract_nested"}] \cup DirectArgs
  /\ arg.driver = "direct" => doc \in { DocOf(tl) : tl \in ExampleTypeLists }
  /\ pc = "load"
  /\ err = "none"
  /\ type_map = EmptyDict
  /\ edge_map = <<>>
  /\ ri = 0
  /\ seen = {}
  /\ stack = <<>>
  /\ result = EmptyDict

Frame(type_name, depth, seen0) ==
  [type_name |-> type_name, depth |-> depth, src |-> <<>>, i |-> 1,
   fields |-> <<>>, seen0 |-> seen0]

Top == stack[Len(stack)]

\* main, lines 278-279: load_schema returns the type map
LoadSchema ==
  /\ pc = "load"
  /\ load_schema_error(doc) = "none"
  /\ type_map' = load_schema(doc)
  /\ pc' = IF arg.driver = "direct" THEN "direct" ELSE "extract"
  /\ UNCHANGED <<doc, max_depth, arg, err, edge_map, ri, seen, stack, result>>

\* load_schema raises; main does not catch it
LoadSchemaRaises ==
  /\ pc = "load"
  /\ load_schema_error(doc) # "none"
  /\ err' = load_schema_error(doc)
  /\ pc' = "raised"
  /\ UNCHANGED <<doc, max_depth, arg, type_map, edge_map, ri, seen, stack, result>>

\* extract_nested, lines 141-142
ExtractNested ==
  /\ pc = "extract"
  /\ edge_map' = build_edge_node_map(type_map)
  /\ result' = EmptyDict
  /\ ri' = 1
  /\ pc' = "roots"
  /\ UNCHANGED <<doc, max_depth, arg, err, type_map, seen, stack>>

\* a direct call build_nested_fields(type_name, type_map, edge_map, seen,
\* depth=0, max_depth=max_depth)
DirectCall ==
  /\ pc = "direct"
  /\ edge_map' = build_edge_node_map(type_map)
  /\ seen' = arg.seen
  /\ stack' = << Frame(arg.type_name, 0, arg.seen) >>
  /\ pc' = "enter"
  /\ UNCHANGED <<doc, max_depth, arg, err, type_map, ri, result>>

is_root(name) == is_domain_type(name) /\ kind_is_root(type_map.vals[name])

\* extract_nested, lines 143-147: the continue branches
SkipRoot ==
  /\ pc = "roots"
  /\ ri <= Len(type_map.keys)
  /\ ~is_root(type_map.keys[ri])
  /\ ri' = ri + 1
  /\ UNCHANGED <<doc, max_depth, arg, pc, err, type_map, edge_map, seen, stack, result>>

\* extract_nested, lines 148-150: the call, with a new set()
CallRoot ==
  /\ pc = "roots"
  /\ ri <= Len(type_map.keys)
  /\ is_root(type_map.keys[ri])
  /\ seen' = {}
  /\ stack' = << Frame(type_map.keys[ri], 0, {}) >>
  /\ pc' = "enter"
  /\ UNCHANGED <<doc, max_depth, arg, err, type_map, edge_map, ri, result>>

\* extract_nested, line 152
Finish ==
  /\ pc = "roots"
  /\ ri > Len(type_map.keys)
  /\ pc' = "done"
  /\ UNCHANGED <<doc, max_depth, arg, err, type_map, edge_map, ri, seen, stack, result>>

\* a variant of depth_exhausted: the limit compared with > instead of >=
depth_exhausted_late(depth) == max_depth # None /\ depth > max_depth

\* line 98
depth_exhausted(depth) == max_depth # None /\ depth >= max_depth

\* The return of the innermost call with value ret: to the caller's
\* entry["fields"] and fields.append(entry) (lines 115-123), or to
\* extract_nested's result[name] (line 148), or to the direct caller.
Return(ret) ==
  IF Len(stack) > 1
  THEN LET parent == stack[Len(stack) - 1]
           f == parent.src[parent.i]
           entry == [field |-> field_name(f), type |-> Top.type_name, fields |-> ret]
       IN /\ stack' = [SubSeq(stack, 1, Len(stack) - 1) EXCEPT ![Len(stack) - 1] =
                         [parent EXCEPT !.fields = Append(@, entry), !.i = @ + 1]]
          /\ pc' = "loop"
          /\ UNCHANGED <<ri, result>>
  ELSE /\ stack' = <<>>
       /\ result' = DictSet(result, Top.type_name, ret)
       /\ IF arg.driver = "direct"
          THEN pc' = "done" /\ ri' = ri
          ELSE pc' = "roots" /\ ri' = ri + 1

\* lines 98-99
ReturnDepthExhausted ==
  /\ pc = "enter"
  /\ depth_exhausted(Top.depth)
  /\ Return(<<>>)
  /\ UNCHANGED <<doc, max_depth, arg, err, type_map, edge_map, seen>>

\* lines 100-101
ReturnAlreadySeen ==
  /\ pc = "enter"
  /\ ~depth_exhausted(Top.depth)
  /\ Top.type_name \in seen
  /\ Return(<<>>)
  /\ UNCHANGED <<doc, max_depth, arg, err, type_map, edge_map, seen>>

\* a variant of seen_after_enter: the type not added
seen_not_added == seen

\* line 102
seen_after_enter == seen \cup {Top.type_name}

\* lines 104-106: the list the loop runs over, empty when the type is
\* unknown or has no fields
loop_fields(type_name) ==
  IF DictHas(type_map, type_name) /\ Truthy(type_map.vals[type_name], "fields")
  THEN type_map.vals[type_name].fields
  ELSE <<>>

\* lines 102-106
EnterType ==
  /\ pc = "enter"
  /\ ~depth_exhausted(Top.depth)
  /\ Top.type_name \notin seen
  /\ seen' = seen_after_enter
  /\ stack' = [stack EXCEPT ![Len(stack)].src = loop_fields(Top.type_name)]
  /\ pc' = "loop"
  /\ UNCHANGED <<doc, max_depth, arg, err, type_map, edge_map, ri, result>>

\* a variant of resolve: the EdgeMap not consulted
resolve_base_only(f) == get_base_type(field_type(f))

\* lines 108-109
resolve(f) ==
  LET base == get_base_type(field_type(f))
  IN IF base \in DOMAIN edge_map THEN edge_map[base] ELSE base

\* a variant of has_fields: a name without an entry counts as expandable
has_fields_or_unknown(target) ==
  IF DictHas(type_map, target) THEN Truthy(type_map.vals[target], "fields") ELSE TRUE

\* line 113: type_map.get(target, {}).get("fields")
has_fields(target) ==
  DictHas(type_map, target) /\ Truthy(type_map.vals[target], "fields")

\* a variant of expands: the visiting set not consulted
expands_ignoring_seen(target) == has_fields(target)

\* lines 111-114
expands(target) == target \notin seen /\ has_fields(target)

\* lines 107-110 and 123, the branch at 111 not taken
EmitLeaf ==
  /\ pc = "loop"
  /\ Top.i <= Len(Top.src)
  /\ LET f == Top.src[Top.i]
         target == resolve(f)
     IN /\ ~expands(target)
        /\ stack' = [stack EXCEPT ![Len(stack)] =
                       [@ EXCEPT !.fields = Append(@, [field |-> field_name(f),
                                                       type |-> target]),
                                 !.i = @ + 1]]
  /\ UNCHANGED <<doc, max_depth, arg, pc, err, type_map, edge_map, ri, seen, result>>

\* lines 107-122: the recursive call
CallChild ==
  /\ pc = "loop"
  /\ Top.i <= Len(Top.src)
  /\ LET target == resolve(Top.src[Top.i])
     IN /\ expands(target)
        /\ stack' = Append(stack, Frame(target, Top.depth + 1, seen))
  /\ pc' = "enter"
  /\ UNCHANGED <<doc, max_depth, arg, err, type_map, edge_map, ri, seen, result>>

\* a variant of seen_after_return: the type left in the set
seen_kept == seen

\* line 125
seen_after_return == seen \ {Top.type_name}

\* lines 125-126
ReturnNormal ==
  /\ pc = "loop"
  /\ Top.i > Len(Top.src)
  /\ seen' = seen_after_return
  /\ Return(Top.fields)
  /\ UNCHANGED <<doc, max_depth, arg, err, type_map, edge_map>>

Next ==
  \/ LoadSchema
  \/ LoadSchemaRaises
  \/ ExtractNested
  \/ DirectCall
  \/ SkipRoot
  \/ CallRoot
  \/ Finish
  \/ ReturnDepthExhausted
  \/ ReturnAlreadySeen
  \/ EnterType
  \/ EmitLeaf
  \/ CallChild
  \/ ReturnNormal

Spec == Init /\ [][Next]_vars

\* The interpreter runs the program to its end: a step that can be taken
\* is taken.
FairSpec == Spec /\ WF_vars(Next)

(***************************************************************************)
(* Vocabulary of the properties.                                           *)
(***************************************************************************)
IsExtract == arg.driver = "extract_nested"

Done == pc = "done"

Max(a, b) == IF a >= b THEN a ELSE b

Leaf(field, type) == [field |-> field, type |-> type]

Node(field, type, fields) == [field |-> field, type |-> type, fields |-> fields]

HasKey(e) == "fields" \in DOMAIN e

\* the NestedFields of a list and below it, each with its nesting level
RECURSIVE EntriesAt(_, _)
EntriesAt(entries, level) ==
  UNION { {<<level, entries[i]>>} \cup
          (IF HasKey(entries[i]) THEN EntriesAt(entries[i].fields, level + 1) ELSE {})
          : i \in DOMAIN entries }

\* every NestedField emitted so far: in the results returned to the caller
\* and in the lists of the calls still active
Emitted ==
  UNION ( { EntriesAt(result.vals[n], 1) : n \in DOMAIN result.vals } \cup
          { EntriesAt(stack[k].fields, stack[k].depth + 1) : k \in DOMAIN stack } )

EmittedTypes == { le[2].type : le \in Emitted }

\* number of nesting levels of a list of NestedFields
RECURSIVE OutDepth(_)
OutDepth(entries) ==
  IF entries = <<>> THEN 0
  ELSE LET below(e) == IF HasKey(e) THEN OutDepth(e.fields) ELSE 0
           deepest == CHOOSE i \in DOMAIN entries :
                        \A j \in DOMAIN entries : below(entries[j]) <= below(entries[i])
       IN 1 + below(entries[deepest])

\* the calls that have added their type to the visiting set
Entered == { k \in DOMAIN stack : k < Len(stack) \/ pc = "loop" }

NonEmptyTypes == { n \in DOMAIN type_map.vals : Truthy(type_map.vals[n], "fields") }

base_of(f) == get_base_type(field_type(f))

(***************************************************************************)
(* C1                                                                      *)
(***************************************************************************)
CyclicResultA == << Node("b", nB, << Leaf("a", nA) >>) >>

\* C1: in a traversal started by extract_nested the types under expansion
\* along the active call chain are pairwise distinct and are exactly the
\* visiting set; a call is never made for a type on the path; a field whose
\* resolved type is on the path (the root included) is a leaf.  For
\* A { b: B }, B { a: A }, with a depth limit that does not cut the example
\* (none, or at least 2), root A gives [{b, B, fields: [{a, A}]}].
C1_PathDistinct ==
  IsExtract =>
    /\ \A j, k \in Entered : j # k => stack[j].type_name # stack[k].type_name
    /\ seen = { stack[k].type_name : k \in Entered }
    /\ (pc = "enter" => Top.type_name \notin seen)
    /\ \A k \in DOMAIN stack : \A i \in DOMAIN stack[k].fields :
         stack[k].fields[i].type \in { stack[j].type_name : j \in 1..k }
           => ~HasKey(stack[k].fields[i])
    /\ ( /\ doc = DocOf(CyclicTypes)
         /\ max_depth = None \/ max_depth >= 2
         /\ DictHas(result, nA) )
       => result.vals[nA] = CyclicResultA

C1_Witness ==
  /\ IsExtract
  /\ doc = DocOf(CyclicTypes)
  /\ max_depth = None
  /\ Done
  /\ result.vals[nA] = CyclicResultA

(***************************************************************************)
(* C2                                                                      *)
(***************************************************************************)
\* C2 as stated: every call chain of build_nested_fields is at most as long
\* as the number of type names with a non-empty field list.
C2_ChainBoundAsStated == IsExtract => Len(stack) <= Cardinality(NonEmptyTypes)

C2_ChainBound == IsExtract => Len(stack) <= Max(1, Cardinality(NonEmptyTypes))

\* C2, amended: every call chain of build_nested_fields is at most as long
\* as the number of type names with a non-empty field list, or 1 when no
\* type has one (the call for a root without fields), and extract_nested,
\* once called, returns.
C2_Terminates == [] C2_ChainBound /\ ((pc = "extract") ~> Done)

C2_Witness ==
  /\ IsExtract
  /\ doc = DocOf(CyclicTypes)
  /\ max_depth = None
  /\ Len(stack) = Cardinality(NonEmptyTypes)
  /\ pc = "loop"

(***************************************************************************)
(* C3                                                                      *)
(***************************************************************************)
\* a type reachable from t by expansion is on the path again
RECURSIVE OnCycle(_, _)
OnCycle(t, path) ==
  \/ t \in path
  \/ \E i \in DOMAIN loop_fields(t) :
       LET target == resolve(loop_fields(t)[i])
       IN has_fields(target) /\ OnCycle(target, path \cup {t})

\* levels of the longest chain from t in an acyclic schema, the field list
\* of t being level 1
RECURSIVE Levels(_)
Levels(t) ==
  IF loop_fields(t) = <<>> THEN 0
  ELSE LET fs == loop_fields(t)
           below(f) == IF has_fields(resolve(f)) THEN Levels(resolve(f)) ELSE 0
           deepest == CHOOSE i \in DOMAIN fs : \A j \in DOMAIN fs : below(fs[j]) <= below(fs[i])
       IN 1 + below(fs[deepest])

\* C3: with max_depth = N the result of a root has no NestedField at a
\* nesting level above N; N = 0 gives every root the empty list; a root of
\* an acyclic schema whose longest chain has exactly N levels is expanded
\* to exactly N levels.
C3_DepthBound ==
  (IsExtract /\ max_depth # None) =>
    \A n \in DOMAIN result.vals :
      /\ OutDepth(result.vals[n]) <= max_depth
      /\ \A le \in EntriesAt(result.vals[n], 1) : le[1] <= max_depth
      /\ (max_depth = 0 => result.vals[n] = <<>>)
      /\ (~OnCycle(n, {}) /\ Levels(n) = max_depth) => OutDepth(result.vals[n]) = max_depth

C3_Witness ==
  /\ IsExtract
  /\ Done
  /\ doc = DocOf(DiamondTypes)
  /\ max_depth = 3
  /\ ~OnCycle(nA, {})
  /\ Levels(nA) = 3
  /\ OutDepth(result.vals[nA]) = 3

(***************************************************************************)
(* C4                                                                      *)
(***************************************************************************)
\* the fields a call has emitted so far, each with the declaration it came from
EmittedFrom ==
  UNION { { <<stack[k].src[i], stack[k].fields[i]>> : i \in DOMAIN stack[k].fields }
          : k \in DOMAIN stack }

EdgeTargets == { edge_map[k] : k \in DOMAIN edge_map }

\* C4 as stated: a field whose base type name is a key of the EdgeMap is
\* emitted with the mapped name, and that Edge type's name is the type of no
\* NestedField of the output.
C4_EdgeCollapseAsStated ==
  \A fe \in EmittedFrom :
    base_of(fe[1]) \in DOMAIN edge_map =>
      /\ fe[2].type = edge_map[base_of(fe[1])]
      /\ base_of(fe[1]) \notin EmittedTypes

\* C4, amended: a field whose base type name is a key of the EdgeMap is
\* emitted with the mapped name, and that Edge type's name is the type of a
\* NestedField of the output only when it is itself the name some EdgeMap
\* entry maps to (an Edge type whose node is an Edge type).  For
\* A { items: [NonNull<ItemEdge>] }, ItemEdge { node: Item }, at any depth
\* of at least 1, items is emitted with type Item.
C4_EdgeCollapse ==
  /\ \A fe \in EmittedFrom :
       base_of(fe[1]) \in DOMAIN edge_map =>
         /\ fe[2].type = edge_map[base_of(fe[1])]
         /\ base_of(fe[1]) \in EmittedTypes => base_of(fe[1]) \in EdgeTargets
  /\ \A t \in EmittedTypes : t \in DOMAIN edge_map => t \in EdgeTargets
  /\ ( /\ IsExtract
       /\ doc = DocOf(EdgeTypes)
       /\ max_depth # 0
       /\ DictHas(result, nA) )
     => /\ Len(result.vals[nA]) = 1
        /\ result.vals[nA][1].field = "items"
        /\ result.vals[nA][1].type = nItem

C4_Witness ==
  /\ IsExtract
  /\ Done
  /\ doc = DocOf(EdgeTypes)
  /\ max_depth = 1
  /\ edge_map = (nItemEdge :> nItem)
  /\ result.vals[nA][1].type = nItem
  /\ nItemEdge \notin EmittedTypes

(***************************************************************************)
(* C5                                                                      *)
(***************************************************************************)
IsWrapperName(name) ==
  endswith(name, sConnection) \/ endswith(name, sEdge) \/ endswith(name, sPayload)

\* index of the first field named "edges", 0 when there is none
RECURSIVE edges_index(_, _)
edges_index(fields, i) ==
  IF i > Len(fields) THEN 0
  ELSE IF field_name(fields[i]) = "edges" THEN i
  ELSE edges_index(fields, i + 1)

\* name is a Connection type whose edges field resolves to an Edge type of
\* the EdgeMap
IsConnection(name) ==
  /\ endswith(name, sConnection)
  /\ has_fields(name)
  /\ edges_index(type_map.vals[name].fields, 1) # 0
  /\ base_of(type_map.vals[name].fields[edges_index(type_map.vals[name].fields, 1)])
       \in DOMAIN edge_map

ConnectionEntity(name) ==
  edge_map[base_of(type_map.vals[name].fields[edges_index(type_map.vals[name].fields, 1)])]

\* C5: a field of a domain type that resolves to a Connection type whose
\* edges lead to an Edge type whose node is an entity is emitted with the
\* entity as its type, and no type whose name ends in Connection, Edge or
\* Payload is expanded in the output (no NestedField of such a type has
\* NestedFields below it).
C5_SingleHop ==
  IsExtract =>
    /\ \A k \in DOMAIN stack : \A i \in DOMAIN stack[k].fields :
         ( /\ is_domain_type(stack[k].type_name)
           /\ IsConnection(base_of(stack[k].src[i])) )
         => stack[k].fields[i].type = ConnectionEntity(base_of(stack[k].src[i]))
    /\ \A le \in Emitted :
         IsWrapperName(le[2].type) => ~(HasKey(le[2]) /\ le[2].fields # <<>>)

(***************************************************************************)
(* C6                                                                      *)
(***************************************************************************)
\* entries has one NestedField for each field the type declares, in order
CompleteList(entries, type_name) ==
  /\ Len(entries) = Len(loop_fields(type_name))
  /\ \A i \in DOMAIN entries :
       entries[i].field = field_name(loop_fields(type_name)[i])

\* C6: a field that resolves to a name without an entry in the type map is
\* emitted as {field, type} without a fields key; the build raises nothing;
\* and every list a call returns has an entry for every field of its type
\* (or is empty because the depth limit was reached), the fields after an
\* unknown reference included.
C6_UnknownLeaf ==
  /\ pc \notin {"load", "raised"} => err = "none"
  /\ \A le \in Emitted : ~DictHas(type_map, le[2].type) => ~HasKey(le[2])
  /\ \A le \in Emitted :
       HasKey(le[2]) =>
         IF max_depth # None /\ le[1] >= max_depth
         THEN le[2].fields = <<>>
         ELSE CompleteList(le[2].fields, le[2].type)
  /\ IsExtract =>
       \A n \in DOMAIN result.vals :
         IF max_depth = 0 THEN result.vals[n] = <<>>
         ELSE CompleteList(result.vals[n], n)

C6_Witness ==
  /\ IsExtract
  /\ Done
  /\ doc = DocOf(ChainTypes)
  /\ max_depth = None
  /\ result.vals[nB] =
       << Leaf("g", nGhost), Node("c", nC, << Node("d", nD, << Leaf("id", nID) >>) >>) >>

(***************************************************************************)
(* C7                                                                      *)
(***************************************************************************)
LacksTypeList(d) ==
  \/ "data" \notin DOMAIN d
  \/ "__schema" \notin DOMAIN d["data"]
  \/ "types" \notin DOMAIN d["data"]["__schema"]

\* C7: on a document without data, __schema or types load_schema fails with
\* an error and gives no type map: the program never goes on with a result
\* of load_schema for such a document.
C7_FailsFast ==
  (LacksTypeList(doc) /\ pc # "load") => (pc = "raised" /\ err # "none")

(***************************************************************************)
(* C8                                                                      *)
(***************************************************************************)
\* C8: extract_fields gives what the nested build gives with the depth
\* limited to one level and an empty EdgeMap: the same root keys with the
\* same ordered {field, type} entries, none with a fields key.
C8_FlatIsDegenerate ==
  (IsExtract /\ Done /\ max_depth = 1 /\ DOMAIN edge_map = {})
    => result = extract_fields(type_map)

(***************************************************************************)
(* C9                                                                      *)
(***************************************************************************)
\* C9: a NestedField has a fields key exactly when, as it is emitted, the
\* depth budget is not exhausted, its type has a non-empty field list in the
\* type map and its type is not in the visiting set; a field at nesting
\* level max_depth has no fields key.
C9_KeyIffExpanded ==
  /\ \A k \in DOMAIN stack : \A i \in DOMAIN stack[k].fields :
       HasKey(stack[k].fields[i]) <=>
         /\ max_depth = None \/ stack[k].depth + 1 < max_depth
         /\ has_fields(stack[k].fields[i].type)
         /\ stack[k].fields[i].type \notin (stack[k].seen0 \cup {stack[k].type_name})
  /\ \A le \in Emitted : le[1] = max_depth => ~HasKey(le[2])

(***************************************************************************)
(* C10                                                                     *)
(***************************************************************************)
\* the build with the visiting set passed down by value
RECURSIVE PathLocalBuild(_, _, _)
PathLocalBuild(type_name, visiting, depth) ==
  IF (max_depth # None /\ depth >= max_depth) \/ type_name \in visiting THEN <<>>
  ELSE LET fs == loop_fields(type_name)
           inside == visiting \cup {type_name}
       IN [ i \in 1..Len(fs) |->
              IF resolve(fs[i]) \notin inside /\ has_fields(resolve(fs[i]))
              THEN Node(field_name(fs[i]), resolve(fs[i]),
                        PathLocalBuild(resolve(fs[i]), inside, depth + 1))
              ELSE Leaf(field_name(fs[i]), resolve(fs[i])) ]

DNode(field) == Node(field, nD, << Leaf("id", nID) >>)

DiamondResultA == << Node("b", nB, << DNode("d") >>), Node("c", nC, << DNode("d") >>) >>

\* C10: every call of build_nested_fields leaves the visiting set as it
\* found it, on each return path: while a call runs its loop the set is its
\* entry value plus its own type, whatever calls have returned to it, and
\* when the outermost call has returned the set is the one the caller passed
\* (for extract_nested, a new empty set for every root).  A type is expanded
\* again under a sibling (D under b and under c of the diamond), and the
\* result of a root is what the build gives for that root alone.
C10_SeenRestored ==
  /\ pc = "enter" => seen = Top.seen0
  /\ pc = "loop" => seen = Top.seen0 \cup {Top.type_name}
  /\ \A k \in DOMAIN stack :
       k < Len(stack) => stack[k + 1].seen0 = stack[k].seen0 \cup {stack[k].type_name}
  /\ (stack # <<>> /\ IsExtract) => stack[1].seen0 = {}
  /\ (stack = <<>> /\ pc \in {"roots", "done"}) =>
       seen = (IF IsExtract THEN {} ELSE arg.seen)
  /\ \A n \in DOMAIN result.vals :
       result.vals[n] = PathLocalBuild(n, IF IsExtract THEN {} ELSE arg.seen, 0)
  /\ (IsExtract /\ doc = DocOf(DiamondTypes) /\ max_depth = None /\ DictHas(result, nA))
       => result.vals[nA] = DiamondResultA

C10_Witness ==
  /\ IsExtract
  /\ Done
  /\ doc = DocOf(DiamondTypes)
  /\ max_depth = None
  /\ result.vals[nA] = DiamondResultA
  /\ seen = {}

====
